---------------------------- MODULE Spec2Model ----------------------------
(* Session persistence Manager of oauth2-proxy                               *)
(* (pkg/sessions/persistence/manager.go).                                   *)
(*                                                                         *)
(* Manager.Save / Load / Clear are request handlers.  Each runs on the      *)
(* goroutine of its request, so two requests of one browser may overlap.    *)
(* A handler is modelled as the chain of its I/O calls: the decode of the   *)
(* request cookie (request-local, done when the handler starts), the Store  *)
(* call and the cookie call.  The ticket and the Store are collaborators    *)
(* whose code is outside manager.go; they are modelled from their contract. *)
EXTENDS Integers, Sequences, FiniteSets, TLC

(***************************************************************************)
(* Bounds                                                                  *)
(***************************************************************************)
MaxIds == 2        \* ticket ids that the random source can hand out

Procs == {"r1", "r2"}      \* the requests that can be in flight
Serial == {"r1"}           \* one request at a time
Ids == 1..MaxIds
Secrets == {1, 2}
Objs == {1, 2}             \* the caller's state objects: 1 has no CreatedAt yet, 2 has
Times == {2}               \* the values of time.Now(), later than object 2's CreatedAt

(***************************************************************************)
(* Values                                                                  *)
(***************************************************************************)
\* error values: <<>> is nil, <<e>> a plain error, <<ctx, e>> an error
\* formatted into a new message with %v
Nil == <<>>
ErrNoCookie == <<"http: named cookie not present">>
ErrDecode == <<"failed to decode ticket">>
ErrRandom == <<"failed to read random bytes">>
ErrEncode == <<"failed to encode the session state">>
ErrStoreSave == <<"store: save failed">>
ErrStoreLoad == <<"store: load failed">>
ErrStoreClear == <<"store: clear failed">>
ErrNotFound == <<"store: not found">>
ErrCrypto == <<"failed to decrypt the session state">>
ErrSetCookie == <<"failed to make the session cookie">>
ErrClearCookie == <<"failed to make the clearing cookie">>

\* fmt.Errorf("<ctx>: %v", err): the message of err is copied into a new
\* error, the result does not unwrap to err
Errorf(ctx, err) == <<ctx>> \o err

\* errors.Is(err, target) for an error that is not a %w chain
ErrorsIs(err, target) == err = target

NoTicket == [id |-> 0, secret |-> 0]
NoSession == [user |-> 0, createdAt |-> 0]
NoEntry == [key |-> 0, data |-> <<>>]
NoCookie == <<>>

Tickets == [id : Ids, secret : Secrets]

\* the cookie values a request can carry: none, malformed, or an encoded ticket
Malformed == <<0>>
CookieValues == {NoCookie, Malformed} \cup {<<t.id, t.secret>> : t \in Tickets}

VARIABLES
    store,      \* the Store: ticket id -> encrypted payload, or NoEntry
    jar,        \* the session cookie the browser holds
    sessObj,    \* the caller's *sessions.SessionState objects
    call,       \* per request: the handler running, its locals, result and I/O
    lastSave    \* history: the latest change of the Store. After a write of a Save
                \* its cookie and state, and whether a Save set that cookie; after
                \* the entry went, the cookie and how it went (expired or cleared)

vars == <<store, jar, sessObj, call, lastSave>>

(***************************************************************************)
(* Ticket (collaborator of the Manager)                                    *)
(***************************************************************************)
\* the cookie value of a ticket: its id and secret, packed
encodeTicket(t) == <<t.id, t.secret>>

\* decodeTicketFromRequest: the request's cookie parsed into a ticket.
\* No cookie is http.ErrNoCookie, returned unwrapped; a value that does not
\* split into id and secret is a decode error.
decodeTicketFromRequest(cookie) ==
    IF cookie = NoCookie THEN [tckt |-> NoTicket, err |-> ErrNoCookie]
    ELSE IF Len(cookie) # 2 THEN [tckt |-> NoTicket, err |-> ErrDecode]
    ELSE [tckt |-> [id |-> cookie[1], secret |-> cookie[2]], err |-> Nil]

\* the session state as stored: serialised, then sealed under the ticket's secret
Serialize(s) == <<s.user, s.createdAt>>
Deserialize(d) == [user |-> d[1], createdAt |-> d[2]]
Encrypt(secret, data) == [key |-> secret, data |-> data]

\* ticket.loadSession after the Store read succeeded: no entry is not found,
\* an entry sealed under another secret fails to decrypt
loadSession(t, entry) ==
    IF entry = NoEntry THEN [sess |-> NoSession, err |-> ErrNotFound]
    ELSE IF entry.key # t.secret THEN [sess |-> NoSession, err |-> ErrCrypto]
    ELSE [sess |-> Deserialize(entry.data), err |-> Nil]

(***************************************************************************)
(* Requests                                                                *)
(***************************************************************************)
NoSave == [cookie |-> NoCookie, sess |-> NoSession, ok |-> FALSE, gone |-> ""]

IdleCall ==
    [pc |-> "idle", op |-> "none", req |-> NoCookie, obj |-> 0,
     tckt |-> NoTicket, derr |-> Nil, minted |-> FALSE,
     err |-> Nil, ret |-> NoSession, io |-> <<>>,
     read |-> NoEntry,        \* history: what the Store read of a Load returned
     expect |-> NoSession]    \* history: lastSave's state, if its cookie is the request's

\* one I/O call of a handler: the function, its key or cookie argument, its outcome
IO(fn, arg, err) == [fn |-> fn, arg |-> arg, err |-> err]

Init ==
    /\ store = [i \in Ids |-> NoEntry]
    /\ jar = NoCookie
    /\ sessObj = [o \in Objs |-> [user |-> o, createdAt |-> IF o = 1 THEN 0 ELSE 1]]
    /\ call = [p \in Procs |-> IdleCall]
    /\ lastSave = NoSave

\* a request can start a handler when it runs none
Free(p) == call[p].pc \in {"idle", "done"}

\* a state object is passed to one Save at a time (it belongs to one request)
InSave(o) == \E q \in Procs : call[q].op = "Save" /\ call[q].pc \in {"store", "cookie"} /\ call[q].obj = o

Finish(c, err, sess) == [c EXCEPT !.pc = "done", !.err = err, !.ret = sess]

\* newTicket: the tickets the random source can produce. An id is random and
\* collides with no id in use: in the Store, in the browser's cookie or held
\* by a running handler
InUse(id) ==
    \/ store[id] # NoEntry
    \/ Len(jar) = 2 /\ jar[1] = id
    \/ \E q \in Procs : call[q].pc \in {"store", "cookie"} /\ call[q].tckt.id = id
newTicket == {t \in Tickets : ~InUse(t.id)}

(***************************************************************************)
(* Manager.Save                                                            *)
(***************************************************************************)
\* faulty variants of stampCreatedAt: the stamp left out; the stamp set on every Save
stampNever(createdAt, now) == createdAt
stampAlways(createdAt, now) == now

\* s.CreatedAt after the first statement of Save; 0 is nil or the zero time
stampCreatedAt(createdAt, now) == IF createdAt = 0 THEN now ELSE createdAt

\* faulty variant of SaveTickets: every Save without a ticket takes the same one
SaveTicketsShared(d) ==
    IF d.err = Nil THEN {[tckt |-> d.tckt, minted |-> FALSE, err |-> Nil]}
    ELSE {[tckt |-> [id |-> 1, secret |-> 1], minted |-> TRUE, err |-> Nil]}

\* faulty variant of SaveTickets: a new ticket on every Save
SaveTicketsAlwaysMint(d) ==
    {[tckt |-> NoTicket, minted |-> FALSE,
      err |-> Errorf("error creating a session ticket", ErrRandom)]}
    \cup {[tckt |-> t, minted |-> TRUE, err |-> Nil] : t \in newTicket}

\* the ticket Save goes on with, given the decode d of the request cookie:
\* the decoded ticket, or after any decode failure a new one; only a failure
\* of newTicket is an error
SaveTickets(d) ==
    IF d.err = Nil THEN {[tckt |-> d.tckt, minted |-> FALSE, err |-> Nil]}
    ELSE {[tckt |-> NoTicket, minted |-> FALSE,
           err |-> Errorf("error creating a session ticket", ErrRandom)]}
         \cup {[tckt |-> t, minted |-> TRUE, err |-> Nil] : t \in newTicket}

\* Save up to its Store call: stamp CreatedAt, decode the ticket of the
\* request cookie or mint a new one
SaveBegin(p, o) ==
    /\ Free(p)
    /\ ~InSave(o)
    /\ \E now \in Times : sessObj' = [sessObj EXCEPT ![o].createdAt = stampCreatedAt(@, now)]
    /\ LET d == decodeTicketFromRequest(jar)
           c == [IdleCall EXCEPT !.op = "Save", !.req = jar, !.obj = o, !.derr = d.err]
       IN  \E r \in SaveTickets(d) :
             call' = [call EXCEPT ![p] =
                 IF r.err # Nil THEN Finish(c, r.err, NoSession)
                 ELSE [c EXCEPT !.pc = "store", !.tckt = r.tckt, !.minted = r.minted]]
    /\ UNCHANGED <<store, jar, lastSave>>

\* faulty variant of SaveStored: the error of saveSession is put in a new message
SaveStoredWrapped(c, err) ==
    IF err # Nil THEN Finish(c, Errorf("error saving the session", err), NoSession)
    ELSE [c EXCEPT !.pc = "cookie"]

\* faulty variant of SaveStored: the error of saveSession is not checked
SaveStoredUnchecked(c, err) == [c EXCEPT !.pc = "cookie"]

\* Save after tckt.saveSession returned err: an error ends Save, before the
\* cookie is set
SaveStored(c, err) == IF err # Nil THEN Finish(c, err, NoSession) ELSE [c EXCEPT !.pc = "cookie"]

\* tckt.saveSession with the Manager's closure over m.Store.Save
SaveStore(p) ==
    /\ call[p].op = "Save" /\ call[p].pc = "store"
    /\ LET c == call[p]
           t == c.tckt
       IN  \/ /\ call' = [call EXCEPT ![p] = SaveStored(c, ErrEncode)]
              /\ UNCHANGED <<store, lastSave>>
           \/ /\ call' = [call EXCEPT ![p] =
                    SaveStored([c EXCEPT !.io = Append(@, IO("Store.Save", <<t.id>>, ErrStoreSave))],
                               ErrStoreSave)]
              /\ UNCHANGED <<store, lastSave>>
           \/ /\ store' = [store EXCEPT ![t.id] = Encrypt(t.secret, Serialize(sessObj[c.obj]))]
              /\ call' = [call EXCEPT ![p] =
                    SaveStored([c EXCEPT !.io = Append(@, IO("Store.Save", <<t.id>>, Nil))], Nil)]
              /\ lastSave' = [cookie |-> encodeTicket(t), sess |-> sessObj[c.obj], ok |-> FALSE, gone |-> ""]
    /\ UNCHANGED <<jar, sessObj>>

\* faulty variant of SaveCookie: when setCookie fails the entry just written
\* is deleted again
SaveCookieRollback(p) ==
    /\ call[p].op = "Save" /\ call[p].pc = "cookie"
    /\ LET c == call[p]
           v == encodeTicket(c.tckt)
       IN  \/ /\ jar' = v
              /\ call' = [call EXCEPT ![p] =
                    Finish([c EXCEPT !.io = Append(@, IO("setCookie", v, Nil))], Nil, NoSession)]
              /\ lastSave' = IF lastSave.cookie = v /\ lastSave.gone = ""
                             THEN [lastSave EXCEPT !.ok = TRUE] ELSE lastSave
              /\ UNCHANGED store
           \/ /\ call' = [call EXCEPT ![p] =
                    Finish([c EXCEPT !.io = Append(@, IO("setCookie", v, ErrSetCookie))],
                           ErrSetCookie, NoSession)]
              /\ store' = [store EXCEPT ![c.tckt.id] = NoEntry]
              /\ UNCHANGED <<jar, lastSave>>
    /\ UNCHANGED sessObj

\* return tckt.setCookie(rw, req, s)
SaveCookie(p) ==
    /\ call[p].op = "Save" /\ call[p].pc = "cookie"
    /\ LET c == call[p]
           v == encodeTicket(c.tckt)
       IN  \/ /\ jar' = v
              /\ call' = [call EXCEPT ![p] =
                    Finish([c EXCEPT !.io = Append(@, IO("setCookie", v, Nil))], Nil, NoSession)]
              /\ lastSave' = IF lastSave.cookie = v /\ lastSave.gone = ""
                             THEN [lastSave EXCEPT !.ok = TRUE] ELSE lastSave
           \/ /\ call' = [call EXCEPT ![p] =
                    Finish([c EXCEPT !.io = Append(@, IO("setCookie", v, ErrSetCookie))],
                           ErrSetCookie, NoSession)]
              /\ UNCHANGED <<jar, lastSave>>
    /\ UNCHANGED <<store, sessObj>>

(***************************************************************************)
(* Manager.Load                                                            *)
(***************************************************************************)
\* faulty variant of LoadUndecoded: the decode error is lost
LoadUndecodedNil(derr) == Nil

\* what Load returns when the decode failed with derr
LoadUndecoded(derr) == derr

\* faulty variant of LoadBegin: a cookie that does not decode is cleared, as
\* Clear does
LoadBeginClearing(p) ==
    /\ Free(p)
    /\ LET d == decodeTicketFromRequest(jar)
           c == [IdleCall EXCEPT !.op = "Load", !.req = jar, !.derr = d.err]
       IN  /\ call' = [call EXCEPT ![p] =
                  IF d.err # Nil THEN Finish(c, LoadUndecoded(d.err), NoSession)
                  ELSE [c EXCEPT !.pc = "store", !.tckt = d.tckt]]
           /\ jar' = IF d.err # Nil THEN NoCookie ELSE jar
    /\ UNCHANGED <<store, sessObj, lastSave>>

\* Load up to its Store call: a decode failure is returned at once
LoadBegin(p) ==
    /\ Free(p)
    /\ LET d == decodeTicketFromRequest(jar)
           c == [IdleCall EXCEPT !.op = "Load", !.req = jar, !.derr = d.err]
       IN  call' = [call EXCEPT ![p] =
                IF d.err # Nil THEN Finish(c, LoadUndecoded(d.err), NoSession)
                ELSE [c EXCEPT !.pc = "store", !.tckt = d.tckt]]
    /\ UNCHANGED <<store, jar, sessObj, lastSave>>

\* faulty variant of LoadResult: the error of loadSession is dropped
LoadResultUnchecked(c, r) == Finish(c, Nil, r.sess)

\* faulty variant of LoadResult: an entry that is not found counts as an
\* empty session
LoadResultLenient(c, r) == Finish(c, IF r.err = ErrNotFound THEN Nil ELSE r.err, r.sess)

\* Load returns what tckt.loadSession returned
LoadResult(c, r) == Finish(c, r.err, r.sess)

\* tckt.loadSession with the Manager's closure over m.Store.Load
LoadStore(p) ==
    /\ call[p].op = "Load" /\ call[p].pc = "store"
    /\ LET c == call[p]
           t == c.tckt
           e == IF lastSave.ok /\ lastSave.cookie = c.req THEN lastSave.sess ELSE NoSession
           h == [c EXCEPT !.expect = e]
       IN  \/ call' = [call EXCEPT ![p] =
                  LoadResult([h EXCEPT !.io = Append(@, IO("Store.Load", <<t.id>>, ErrStoreLoad))],
                             [sess |-> NoSession, err |-> ErrStoreLoad])]
           \/ LET r == loadSession(t, store[t.id])
                  serr == IF store[t.id] = NoEntry THEN ErrNotFound ELSE Nil
              IN  call' = [call EXCEPT ![p] =
                      LoadResult([h EXCEPT !.io = Append(@, IO("Store.Load", <<t.id>>, serr)),
                                           !.read = store[t.id]], r)]
    /\ UNCHANGED <<store, jar, sessObj, lastSave>>

(***************************************************************************)
(* Manager.Clear                                                           *)
(***************************************************************************)
\* Clear up to its cookie call: the decode of the request cookie
ClearBegin(p) ==
    /\ Free(p)
    /\ LET d == decodeTicketFromRequest(jar)
       IN  call' = [call EXCEPT ![p] =
                [IdleCall EXCEPT !.op = "Clear", !.req = jar, !.derr = d.err,
                                 !.tckt = d.tckt, !.pc = "cookie"]]
    /\ UNCHANGED <<store, jar, sessObj, lastSave>>

\* faulty variant of ClearUndecoded: the check for http.ErrNoCookie comes
\* before the check of clearCookie's error
ClearUndecodedNoCookieFirst(derr, cerr) ==
    IF ErrorsIs(derr, ErrNoCookie) THEN Nil
    ELSE IF cerr # Nil THEN Errorf("error creating cookie to clear session", cerr)
    ELSE Errorf("error decoding ticket to clear session", derr)

\* faulty variants of ClearUndecoded: the check for http.ErrNoCookie reads
\* the error of clearCookie; every decode failure counts as no cookie
ClearUndecodedShadowed(derr, cerr) ==
    IF cerr # Nil THEN Errorf("error creating cookie to clear session", cerr)
    ELSE IF ErrorsIs(cerr, ErrNoCookie) THEN Nil
    ELSE Errorf("error decoding ticket to clear session", derr)
ClearUndecodedLenient(derr, cerr) ==
    IF cerr # Nil THEN Errorf("error creating cookie to clear session", cerr) ELSE Nil

\* the result of Clear when the decode failed with derr and the cookie was
\* cleared with cerr: the check for http.ErrNoCookie reads the decode error
\* (the err of the if statement is out of scope after it)
ClearUndecoded(derr, cerr) ==
    IF cerr # Nil THEN Errorf("error creating cookie to clear session", cerr)
    ELSE IF ErrorsIs(derr, ErrNoCookie) THEN Nil
    ELSE Errorf("error decoding ticket to clear session", derr)

\* tckt.clearCookie(rw, req): in the branch of a failed decode its error
\* decides the result, after a decode its error is dropped
ClearCookie(p) ==
    /\ call[p].op = "Clear" /\ call[p].pc = "cookie"
    /\ \E cerr \in {Nil, ErrClearCookie} :
         LET c == [call[p] EXCEPT !.io = Append(@, IO("clearCookie", <<>>, cerr))]
         IN  /\ jar' = IF cerr = Nil THEN NoCookie ELSE jar
             /\ call' = [call EXCEPT ![p] =
                    IF c.derr # Nil THEN Finish(c, ClearUndecoded(c.derr, cerr), NoSession)
                    ELSE [c EXCEPT !.pc = "store"]]
    /\ UNCHANGED <<store, sessObj, lastSave>>

\* faulty variant of ClearResult: the error of the delete is put in a new message
ClearResultWrapped(serr) ==
    IF serr = Nil THEN Nil ELSE Errorf("error clearing the session", serr)

\* faulty variant of ClearResult: the error of the delete is dropped
ClearResultNil(serr) == Nil

\* return tckt.clearSession(...): the error of m.Store.Clear is the result
ClearResult(serr) == serr

\* faulty variant of ClearStore: Clear returns nil without the Store delete
ClearStoreSkipped(p) ==
    /\ call[p].op = "Clear" /\ call[p].pc = "store"
    /\ lastSave' = IF lastSave.sess = NoSession \/ lastSave.cookie[1] = call[p].tckt.id
                   THEN [NoSave EXCEPT !.cookie = call[p].req, !.gone = "cleared"]
                   ELSE lastSave
    /\ call' = [call EXCEPT ![p] = Finish(call[p], Nil, NoSession)]
    /\ UNCHANGED <<store, jar, sessObj>>

\* tckt.clearSession with the Manager's closure over m.Store.Clear
ClearStore(p) ==
    /\ call[p].op = "Clear" /\ call[p].pc = "store"
    /\ \E serr \in {Nil, ErrStoreClear} :
         LET c == call[p]
             id == c.tckt.id
         IN  /\ store' = IF serr = Nil THEN [store EXCEPT ![id] = NoEntry] ELSE store
             /\ lastSave' = IF serr = Nil /\ (lastSave.sess = NoSession \/ lastSave.cookie[1] = id)
                            THEN [NoSave EXCEPT !.cookie = c.req, !.gone = "cleared"]
                            ELSE lastSave
             /\ call' = [call EXCEPT ![p] =
                    Finish([c EXCEPT !.io = Append(@, IO("Store.Clear", <<id>>, serr))],
                           ClearResult(serr), NoSession)]
    /\ UNCHANGED <<jar, sessObj>>

(***************************************************************************)
(* Environment                                                             *)
(***************************************************************************)
\* the Store drops an entry whose TTL has elapsed
Expire(id) ==
    /\ store[id] # NoEntry
    /\ store' = [store EXCEPT ![id] = NoEntry]
    /\ lastSave' = IF lastSave.cookie # NoCookie /\ lastSave.cookie[1] = id
                   THEN [NoSave EXCEPT !.cookie = lastSave.cookie, !.gone = "expired"]
                   ELSE lastSave
    /\ UNCHANGED <<jar, sessObj, call>>

\* between two requests the browser's cookie is deleted, damaged or replaced
\* by another value
Tamper(v) ==
    /\ \A p \in Procs : Free(p)
    /\ v # jar
    /\ jar' = v
    /\ UNCHANGED <<store, sessObj, call, lastSave>>

\* requests served one after the other
Next ==
    \/ \E p \in Serial, o \in Objs : SaveBegin(p, o)
    \/ \E p \in Serial : SaveStore(p)
    \/ \E p \in Serial : SaveCookie(p)
    \/ \E p \in Serial : LoadBegin(p)
    \/ \E p \in Serial : LoadStore(p)
    \/ \E p \in Serial : ClearBegin(p)
    \/ \E p \in Serial : ClearCookie(p)
    \/ \E p \in Serial : ClearStore(p)
    \/ \E id \in Ids : Expire(id)
    \/ \E v \in CookieValues : Tamper(v)

Spec == Init /\ [][Next]_vars

(***************************************************************************)
(* Overlapping requests                                                    *)
(***************************************************************************)
\* a session established by an earlier Save of object 2: its entry in the
\* Store, its cookie in the browser
FirstTicket == [id |-> 1, secret |-> 1]
InitConc ==
    /\ sessObj = [o \in Objs |-> [user |-> o, createdAt |-> IF o = 1 THEN 0 ELSE 1]]
    /\ call = [p \in Procs |-> IdleCall]
    /\ \/ /\ store = [i \in Ids |-> NoEntry]
          /\ jar = NoCookie
          /\ lastSave = NoSave
       \/ /\ store = [i \in Ids |-> IF i = FirstTicket.id
                                    THEN Encrypt(FirstTicket.secret, Serialize(sessObj[2]))
                                    ELSE NoEntry]
          /\ jar = encodeTicket(FirstTicket)
          /\ lastSave = [cookie |-> encodeTicket(FirstTicket), sess |-> sessObj[2],
                         ok |-> TRUE, gone |-> ""]

\* a request makes one changing call, Save or Clear
Once(p) == call[p].pc = "idle"

\* two requests of one browser that overlap: each step is one I/O call of
\* one of them
NextConc ==
    \/ \E p \in Procs, o \in Objs : Once(p) /\ SaveBegin(p, o)
    \/ \E p \in Procs : SaveStore(p)
    \/ \E p \in Procs : SaveCookie(p)
    \/ \E p \in Procs : LoadBegin(p)
    \/ \E p \in Procs : LoadStore(p)
    \/ \E p \in Procs : Once(p) /\ ClearBegin(p)
    \/ \E p \in Procs : ClearCookie(p)
    \/ \E p \in Procs : ClearStore(p)

SpecConc == InitConc /\ [][NextConc]_vars

(***************************************************************************)
(* Properties                                                              *)
(***************************************************************************)
Returned(p, op) == call[p].op = op /\ call[p].pc = "done"

\* the I/O calls of c to fn, and those that returned an error
Calls(c, fn) == {i \in 1..Len(c.io) : c.io[i].fn = fn}
Failed(c, fn) == {i \in Calls(c, fn) : c.io[i].err # Nil}
StoreCalls(c) == Calls(c, "Store.Save") \cup Calls(c, "Store.Load") \cup Calls(c, "Store.Clear")

\* err carries the message of inner behind a context
Wraps(err, inner) == Len(err) > Len(inner) /\ SubSeq(err, Len(err) - Len(inner) + 1, Len(err)) = inner

\* the Store read of Load c failed in the backend
BackendFailed(c) == \E i \in Calls(c, "Store.Load") : c.io[i].err = ErrStoreLoad

\* C1 as stated: after a Save that returned nil, a Load whose request carries
\* the cookie that Save set, the Store entry that Save wrote still in place
\* at the read, returns without error the state that was saved, with its
\* CreatedAt set.
C1_RoundTrip ==
    \A p \in Procs :
        Returned(p, "Load") /\ call[p].expect # NoSession
        => /\ call[p].err = Nil
           /\ call[p].ret = call[p].expect
           /\ call[p].ret.createdAt # 0

\* C1 amended: the same, provided the Store read of the Load does not fail
\* with a backend error.
C1_RoundTripStoreUp ==
    \A p \in Procs :
        Returned(p, "Load") /\ call[p].expect # NoSession /\ ~BackendFailed(call[p])
        => /\ call[p].err = Nil
           /\ call[p].ret = call[p].expect
           /\ call[p].ret.createdAt # 0

\* a Load returned the state of object 1, which had no CreatedAt before its
\* Save, from the cookie the Save left in the browser
C1_Witness ==
    \E p \in Procs :
        /\ Returned(p, "Load") /\ call[p].err = Nil
        /\ call[p].expect = sessObj[1] /\ call[p].ret = sessObj[1]
        /\ call[p].req = jar /\ lastSave.cookie = jar

\* C2: a Save that ends without a successful Store write (the ticket could
\* not be created, or saveSession or its Store write failed) returns an
\* error and has not called setCookie.
C2_SaveAbortsBeforeCookie ==
    \A p \in Procs :
        Returned(p, "Save") /\ Calls(call[p], "Store.Save") \ Failed(call[p], "Store.Save") = {}
        => call[p].err # Nil /\ Calls(call[p], "setCookie") = {}

\* a Save whose Store write failed has returned
C2_Witness ==
    \E p \in Procs :
        /\ Returned(p, "Save") /\ Failed(call[p], "Store.Save") # {}
        /\ call[p].err = ErrStoreSave /\ call[p].minted

\* C3: a Save whose request cookie decodes works with the decoded ticket:
\* the Store write is keyed by its id and the cookie set is the request's
\* cookie; a ticket is minted only after a decode failure, and the decode
\* failure is never what Save returns.
C3_TicketStability ==
    \A p \in Procs :
        call[p].op = "Save" =>
            LET c == call[p]
                d == decodeTicketFromRequest(c.req)
            IN  /\ d.err = Nil =>
                     /\ ~c.minted
                     /\ \A i \in Calls(c, "Store.Save") : c.io[i].arg = <<c.req[1]>>
                     /\ \A i \in Calls(c, "setCookie") : c.io[i].arg = c.req
                /\ c.minted => d.err # Nil
                /\ d.err # Nil => c.err # d.err /\ ~Wraps(c.err, d.err)
                /\ \A i \in Calls(c, "Store.Save"), j \in Calls(c, "setCookie") :
                       c.io[j].arg[1] = c.io[i].arg[1]

\* a Save whose request bore a ticket has written the Store entry of that
\* ticket and set the request's cookie again
C3_Witness ==
    \E p \in Procs :
        /\ Returned(p, "Save") /\ call[p].err = Nil /\ ~call[p].minted
        /\ store[call[p].req[1]] = Encrypt(call[p].req[2], Serialize(sessObj[call[p].obj]))
        /\ jar = call[p].req /\ lastSave.cookie = jar

\* the cookie c's request carried is the browser's still: c's clearCookie failed
CookieKept(c) == jar = c.req /\ Failed(c, "clearCookie") # {}

\* the Store delete of Clear c went through
Deleted(c) == Calls(c, "Store.Clear") \ Failed(c, "Store.Clear") # {}

\* C4: when a Clear returns, the browser does not still hold the request's
\* valid cookie while that Clear has deleted the Store entry of its ticket.
C4_NoCookieToDeletedEntry ==
    \A p \in Procs :
        Returned(p, "Clear") /\ call[p].derr = Nil
        => ~(CookieKept(call[p]) /\ Deleted(call[p]) /\ store[call[p].tckt.id] = NoEntry)

\* C5: when the request cookie decodes and the Store delete fails, Clear
\* returns the error of the delete.
C5_DeleteErrorReturned ==
    \A p \in Procs :
        Returned(p, "Clear") /\ call[p].derr = Nil
        => \A i \in Failed(call[p], "Store.Clear") :
               call[p].err = call[p].io[i].err /\ call[p].err # Nil

\* a Clear whose Store delete failed has returned, the entry still stored
C5_Witness ==
    \E p \in Procs :
        /\ Returned(p, "Clear") /\ call[p].derr = Nil
        /\ Failed(call[p], "Store.Clear") # {}
        /\ store[call[p].tckt.id] # NoEntry

\* C6: a Save or Clear in which setting or clearing the cookie failed
\* returns an error.
C6_CookieFailureReturned ==
    \A p \in Procs :
        call[p].pc = "done" /\ call[p].op \in {"Save", "Clear"}
        /\ Failed(call[p], "setCookie") \cup Failed(call[p], "clearCookie") # {}
        => call[p].err # Nil

\* C7: a Clear on a request without cookie makes exactly one I/O call, the
\* cookie clear, and returns nil when that call succeeded.
C7_ClearWithoutCookie ==
    \A p \in Procs :
        Returned(p, "Clear") /\ call[p].req = NoCookie
        => /\ Len(call[p].io) = 1
           /\ call[p].io[1].fn = "clearCookie"
           /\ call[p].io[1].err = Nil => call[p].err = Nil

\* a Clear without cookie cleared the cookie and returned nil
C7_Witness ==
    \E p \in Procs :
        /\ Returned(p, "Clear") /\ call[p].req = NoCookie
        /\ call[p].io = <<IO("clearCookie", <<>>, Nil)>> /\ call[p].err = Nil

\* the request cookie of c is present and does not decode
Undecodable(c) == c.req # NoCookie /\ decodeTicketFromRequest(c.req).err # Nil

\* C8 as stated: a Clear on a request with an undecodable cookie calls the
\* cookie clear, makes no Store call and returns an error that wraps the
\* decode failure.
C8_ClearInvalidCookie ==
    \A p \in Procs :
        Returned(p, "Clear") /\ Undecodable(call[p])
        => /\ Cardinality(Calls(call[p], "clearCookie")) = 1
           /\ StoreCalls(call[p]) = {}
           /\ Wraps(call[p].err, decodeTicketFromRequest(call[p].req).err)

\* C8 amended: such a Clear calls the cookie clear, makes no Store call and
\* returns an error: the wrapped decode failure when the cookie clear
\* succeeded, the wrapped failure of the cookie clear otherwise.
C8_ClearInvalidCookieAmended ==
    \A p \in Procs :
        Returned(p, "Clear") /\ Undecodable(call[p])
        => /\ Cardinality(Calls(call[p], "clearCookie")) = 1
           /\ StoreCalls(call[p]) = {}
           /\ call[p].err # Nil
           /\ IF Failed(call[p], "clearCookie") = {}
              THEN Wraps(call[p].err, decodeTicketFromRequest(call[p].req).err)
              ELSE /\ \A i \in Failed(call[p], "clearCookie") : Wraps(call[p].err, call[p].io[i].err)
                   /\ ~Wraps(call[p].err, decodeTicketFromRequest(call[p].req).err)

\* a Clear with an undecodable cookie cleared the cookie and returned the
\* wrapped decode failure
C8_Witness ==
    \E p \in Procs :
        /\ Returned(p, "Clear") /\ call[p].req = Malformed
        /\ call[p].io = <<IO("clearCookie", <<>>, Nil)>>
        /\ call[p].err = Errorf("error decoding ticket to clear session", ErrDecode)
        /\ jar = NoCookie

\* C9: every Save leaves its state object with a CreatedAt; a step that
\* changes the CreatedAt of an object is the start of a Save of that object,
\* finds it unset and sets it to a time; hence a CreatedAt that is set, by a
\* first Save or by the caller, is the same after every later Save, whether
\* the Saves succeed or fail.
C9_CreatedAtOnce ==
    /\ [](\A p \in Procs : call[p].op = "Save" => sessObj[call[p].obj].createdAt # 0)
    /\ [][\A o \in Objs :
             sessObj'[o] # sessObj[o]
             => /\ sessObj[o].createdAt = 0
                /\ sessObj'[o].createdAt \in Times
                /\ sessObj'[o].user = sessObj[o].user
                /\ \E p \in Procs : call'[p].op = "Save" /\ call'[p].obj = o /\ call[p] # call'[p]]_vars

\* object 1 was stamped and written by a Save, and a later Save of it has
\* begun and found the stamp; object 2 was saved with the caller's CreatedAt
C9_Witness ==
    \E p \in Procs :
        /\ call[p].op = "Save" /\ call[p].pc = "store" /\ call[p].obj = 1
        /\ lastSave.sess = sessObj[1] /\ sessObj[1].createdAt = 2
        /\ \E i \in Ids : store[i] # NoEntry /\ Deserialize(store[i].data) = sessObj[2]
        /\ sessObj[2].createdAt = 1

\* the Store read of Load c gave no usable entry: none, or one sealed under
\* another secret
Unusable(c) == c.read = NoEntry \/ c.read.key # c.tckt.secret

\* C10: a Load returns an error and no session when the cookie is absent or
\* undecodable, when the Store read fails, finds no entry or finds one that
\* does not decrypt; after a decode failure it returns that error without a
\* Store call; a session is returned only with a nil error.
C10_LoadOnlyValid ==
    \A p \in Procs :
        Returned(p, "Load") =>
            LET c == call[p]
                d == decodeTicketFromRequest(c.req)
            IN  /\ d.err # Nil => c.err = d.err /\ c.io = <<>>
                /\ d.err # Nil \/ BackendFailed(c) \/ Unusable(c) => c.err # Nil
                /\ c.err # Nil => c.ret = NoSession
                /\ c.err = Nil => c.ret = Deserialize(c.read.data) /\ c.ret # NoSession

\* a Load read an entry sealed under another secret and returned the
\* decryption error and no session
C10_Witness ==
    \E p \in Procs :
        /\ Returned(p, "Load") /\ call[p].read # NoEntry
        /\ call[p].read.key # call[p].tckt.secret
        /\ call[p].err = ErrCrypto /\ call[p].ret = NoSession

\* C11: a Load whose Store read finds no entry returns the not-found error
\* and no session; the outcome is the same whether the entry was dropped
\* after its TTL or the id was never written.
C11_ExpiredAsNeverWritten ==
    \A p \in Procs :
        Returned(p, "Load") /\ call[p].derr = Nil /\ ~BackendFailed(call[p])
        /\ call[p].read = NoEntry
        => /\ call[p].err = ErrNotFound
           /\ call[p].ret = NoSession
           /\ \A i \in Calls(call[p], "Store.Load") : call[p].io[i].err = ErrNotFound

\* the entry a Save wrote has expired, and a Load with the cookie of that
\* Save, still the browser's, returned not found and no session
C11_Witness ==
    \E p \in Procs :
        /\ Returned(p, "Load") /\ call[p].req = jar
        /\ lastSave.gone = "expired" /\ lastSave.cookie = call[p].req
        /\ call[p].err = ErrNotFound /\ call[p].ret = NoSession

\* the Store holds, under the id of c's cookie, an entry sealed under another
\* secret than the cookie's
Foreign(c) ==
    /\ c.derr = Nil
    /\ store[c.tckt.id] # NoEntry /\ store[c.tckt.id].key # c.tckt.secret

\* the cookie of Load c is not the cookie of a stored session: it does not
\* decode, or no entry sealed under its secret is stored under its id
Changed(c) ==
    \/ Undecodable(c)
    \/ c.derr = Nil /\ ~BackendFailed(c) /\ Unusable(c)
    \/ Foreign(c)

\* a Load that returns a session has read the entry under the id of its own
\* cookie, sealed under the secret of its own cookie
OwnSession(c) ==
    c.err = Nil
    => /\ \A i \in Calls(c, "Store.Load") : c.io[i].arg = <<c.req[1]>>
       /\ c.read.key = c.req[2]
       /\ c.ret = Deserialize(c.read.data)

\* C12 as stated: a Load whose cookie is not the cookie of a stored session
\* (changed id, changed secret or malformed) returns no session, and its
\* error is a decode failure, not found or a decryption failure; a Load
\* returns only the session stored under its own cookie.
C12_TamperDetected ==
    \A p \in Procs :
        Returned(p, "Load") =>
            /\ OwnSession(call[p])
            /\ Changed(call[p])
               => /\ call[p].err \in {ErrDecode, ErrNotFound, ErrCrypto}
                  /\ call[p].ret = NoSession

\* C12 amended: the error of such a Load is a decode failure, not found, a
\* decryption failure or, when the Store read fails in the backend, the
\* backend's error.
C12_TamperDetectedOrStoreDown ==
    \A p \in Procs :
        Returned(p, "Load") =>
            /\ OwnSession(call[p])
            /\ Changed(call[p])
               => /\ call[p].err \in {ErrDecode, ErrNotFound, ErrCrypto, ErrStoreLoad}
                  /\ call[p].err = ErrStoreLoad <=> BackendFailed(call[p])
                  /\ call[p].ret = NoSession

\* a Save has written and set a cookie; a Load with that cookie's id and
\* another secret returned the decryption error and no session
C12_Witness ==
    \E p \in Procs :
        /\ Returned(p, "Load") /\ Foreign(call[p])
        /\ lastSave.ok /\ lastSave.gone = ""
        /\ lastSave.cookie[1] = call[p].req[1] /\ lastSave.cookie[2] # call[p].req[2]
        /\ call[p].err = ErrCrypto /\ call[p].ret = NoSession

\* the Store read of Load p is this step, the latest Store write, of a Save
\* with the same cookie, still in place
ReadsLatest(p) ==
    /\ call[p].op = "Load" /\ call[p].pc = "store" /\ call'[p].pc = "done"
    /\ lastSave.sess # NoSession /\ lastSave.cookie = call[p].req

\* C13 as stated, its part on the Load: when Saves and a Load with the same
\* valid cookie overlap, the Load returns without error the whole state of
\* the latest Store write, the old state or the new one.
C13_LoadSucceeds ==
    [][\A p \in Procs :
          ReadsLatest(p) => call'[p].err = Nil /\ call'[p].ret = lastSave.sess]_vars

\* C13 amended: when Saves and a Load with the same valid cookie overlap,
\* every such Save works with the ticket of the cookie, its id and its
\* secret; the Store entry is the payload of the latest Store write; and the
\* Load returns without error the whole state of the latest write, the old
\* state or the new one, unless its Store read fails in the backend.
C13_SameCookieRace ==
    /\ [](\A p \in Procs :
            call[p].op = "Save" /\ call[p].derr = Nil
            => ~call[p].minted /\ encodeTicket(call[p].tckt) = call[p].req)
    /\ [](lastSave.sess # NoSession
          => store[lastSave.cookie[1]] = Encrypt(lastSave.cookie[2], Serialize(lastSave.sess)))
    /\ [][\A p \in Procs :
            ReadsLatest(p) /\ ~BackendFailed(call'[p])
            => call'[p].err = Nil /\ call'[p].ret = lastSave.sess]_vars

\* a Save of object 1 with the cookie of the established session has written
\* the Store and not yet set the cookie; a Load with the same cookie returned
\* the new state
C13_Witness ==
    \E p, q \in Procs :
        /\ call[q].op = "Save" /\ call[q].pc = "cookie" /\ call[q].obj = 1
        /\ call[q].req = encodeTicket(FirstTicket)
        /\ Returned(p, "Load") /\ call[p].req = call[q].req
        /\ call[p].err = Nil /\ call[p].ret = sessObj[1] /\ call[p].ret # sessObj[2]

\* Save c minted its ticket and its Store write went through
Created(c) ==
    /\ c.op = "Save" /\ c.minted
    /\ Calls(c, "Store.Save") \ Failed(c, "Store.Save") # {}

\* C14: two Saves that each minted a ticket, because their requests had no
\* cookie, wrote different Store keys, and the entry of each is the payload
\* of its own state: none overwrote the other's; a Load with the cookie of
\* one session reads only the key of that cookie, not the other session's,
\* and returns only an entry sealed under that cookie's secret.
C14_IndependentSessions ==
    \A p, q \in Procs :
        /\ p # q /\ Created(call[p]) /\ Created(call[q])
           => /\ call[p].tckt.id # call[q].tckt.id
              /\ store[call[p].tckt.id] =
                     Encrypt(call[p].tckt.secret, Serialize(sessObj[call[p].obj]))
        /\ Returned(p, "Load") /\ Created(call[q]) /\ call[p].derr = Nil
           /\ call[p].tckt.id # call[q].tckt.id
           => /\ OwnSession(call[p])
              /\ \A i \in Calls(call[p], "Store.Load") : call[p].io[i].arg # <<call[q].tckt.id>>

\* two Saves on requests without cookie overlap: each has minted a ticket and
\* written its entry, neither has set its cookie yet
C14_Witness ==
    /\ \A p \in Procs : Created(call[p]) /\ call[p].pc = "cookie" /\ call[p].req = NoCookie
    /\ call["r1"].tckt.id # call["r2"].tckt.id
    /\ store[call["r1"].tckt.id] # store[call["r2"].tckt.id]

\* C15: a Clear whose request cookie decodes clears the cookie first and then
\* calls Store.Clear, once, with the id of the decoded ticket; it makes no
\* other I/O call and returns what the Store delete returned.
C15_ClearOrder ==
    \A p \in Procs :
        call[p].op = "Clear" /\ call[p].derr = Nil =>
            LET c == call[p]
            IN  /\ c.pc = "store" => Len(c.io) = 1 /\ c.io[1].fn = "clearCookie"
                /\ c.pc = "done"
                   => /\ Len(c.io) = 2
                      /\ c.io[1].fn = "clearCookie"
                      /\ c.io[2].fn = "Store.Clear" /\ c.io[2].arg = <<c.req[1]>>
                      /\ c.err = c.io[2].err

\* a Clear with a stored session's cookie cleared the cookie, deleted the
\* entry and returned nil
C15_Witness ==
    \E p \in Procs :
        /\ Returned(p, "Clear") /\ call[p].derr = Nil /\ call[p].err = Nil
        /\ call[p].io = <<IO("clearCookie", <<>>, Nil), IO("Store.Clear", <<call[p].req[1]>>, Nil)>>
        /\ lastSave.gone = "cleared" /\ lastSave.cookie = call[p].req
        /\ jar = NoCookie /\ store[call[p].req[1]] = NoEntry

\* C16: a Clear whose decode failed and whose cookie clear failed returns the
\* failure of the cookie clear in a new message, not nil and not the decode
\* error, also when the decode failure was that there is no cookie; when the
\* cookie clear succeeded, Clear returns nil exactly when the decode error,
\* not the error of the cookie clear, is http.ErrNoCookie.
C16_CookieClearFailureWins ==
    \A p \in Procs :
        Returned(p, "Clear") /\ call[p].derr # Nil =>
            LET c == call[p]
            IN  /\ Failed(c, "clearCookie") # {}
                   => /\ c.err = Errorf("error creating cookie to clear session", ErrClearCookie)
                      /\ c.err # Nil /\ ~Wraps(c.err, c.derr)
                /\ Failed(c, "clearCookie") = {}
                   => /\ c.err = Nil <=> c.derr = ErrNoCookie
                      /\ c.err # Nil => Wraps(c.err, c.derr)

\* a Clear on a request without cookie whose cookie clear failed returned the
\* failure of the cookie clear
C16_Witness ==
    \E p \in Procs :
        /\ Returned(p, "Clear") /\ call[p].req = NoCookie /\ call[p].derr = ErrNoCookie
        /\ call[p].io = <<IO("clearCookie", <<>>, ErrClearCookie)>>
        /\ Wraps(call[p].err, ErrClearCookie)

\* C17: a Load changes nothing: its only I/O call is the Store read, it mints
\* no ticket, and every step of a Load leaves the Store, the browser's cookie
\* and the caller's state objects as they were.
C17_LoadReadOnly ==
    /\ [](\A p \in Procs :
            call[p].op = "Load"
            => /\ ~call[p].minted
               /\ Len(call[p].io) <= 1
               /\ \A i \in 1..Len(call[p].io) : call[p].io[i].fn = "Store.Load")
    /\ [][\A p \in Procs :
            call'[p] # call[p] /\ call'[p].op = "Load"
            => store' = store /\ jar' = jar /\ sessObj' = sessObj]_vars

\* a Load returned the session of the browser's cookie; the cookie and the
\* entry it read are in place
C17_Witness ==
    \E p \in Procs :
        /\ Returned(p, "Load") /\ call[p].err = Nil /\ call[p].ret # NoSession
        /\ jar = call[p].req /\ store[call[p].tckt.id] = call[p].read
        /\ call[p].io = <<IO("Store.Load", <<call[p].tckt.id>>, Nil)>>

\* C18: a Save, Load or Clear makes at most one Store call; when that call
\* fails, the handler returns the error of the Store as it is, not put in a
\* new message and not replaced.
C18_StoreErrorVerbatim ==
    \A p \in Procs :
        LET c == call[p]
        IN  /\ Cardinality(StoreCalls(c)) <= 1
            /\ c.pc = "done"
               => \A i \in StoreCalls(c) : c.io[i].err # Nil => c.err = c.io[i].err

\* a Save with a stored session's cookie whose Store write failed in the
\* backend made that one call and returned its error
C18_Witness ==
    \E p \in Procs :
        /\ Returned(p, "Save") /\ ~call[p].minted /\ call[p].derr = Nil
        /\ store[call[p].tckt.id] # NoEntry
        /\ call[p].io = <<IO("Store.Save", <<call[p].tckt.id>>, ErrStoreSave)>>
        /\ call[p].err = ErrStoreSave

\* C19: a Save whose Store write went through and whose setCookie failed
\* returns the error of setCookie and has made no further Store call; the
\* step in which it returns leaves the Store entry and the browser's cookie
\* as they were, and when the ticket was minted the browser's cookie does not
\* name it.
C19_NoRollback ==
    /\ [](\A p \in Procs :
            Returned(p, "Save") /\ Failed(call[p], "setCookie") # {}
            => /\ call[p].err = ErrSetCookie
               /\ call[p].io = <<IO("Store.Save", <<call[p].tckt.id>>, Nil),
                                 IO("setCookie", encodeTicket(call[p].tckt), ErrSetCookie)>>)
    /\ [][\A p \in Procs :
            /\ call[p].op = "Save" /\ call[p].pc = "cookie" /\ call'[p].pc = "done"
            /\ Failed(call'[p], "setCookie") # {}
            => /\ store' = store /\ jar' = jar
               /\ call[p].minted => jar' # encodeTicket(call[p].tckt)]_vars

\* a Save on a request without cookie wrote its entry, failed to set the
\* cookie and returned the error: the entry is stored, the browser has no
\* cookie
C19_Witness ==
    \E p \in Procs :
        /\ Returned(p, "Save") /\ call[p].minted /\ call[p].err = ErrSetCookie
        /\ store[call[p].tckt.id] = Encrypt(call[p].tckt.secret, Serialize(sessObj[call[p].obj]))
        /\ lastSave.cookie = encodeTicket(call[p].tckt) /\ ~lastSave.ok
        /\ jar = NoCookie

\* C20: after a Clear with a decoded cookie has deleted the entry and returned
\* nil, and as long as no Save has written the Store since, the entry of that
\* cookie stays absent and every Load with that cookie whose Store read comes
\* then returns an error and no session.
C20_ClearedStaysCleared ==
    /\ [](lastSave.gone = "cleared" => store[lastSave.cookie[1]] = NoEntry)
    /\ [][\A p \in Procs :
            /\ call[p].op = "Load" /\ call[p].pc = "store" /\ call'[p].pc = "done"
            /\ lastSave.gone = "cleared" /\ lastSave.cookie = call[p].req
            => call'[p].err # Nil /\ call'[p].ret = NoSession]_vars

\* a Clear has deleted the entry and returned nil, the browser holds the
\* cookie still, and a Load with it returned not found
C20_Witness ==
    \E p, q \in Procs :
        /\ Returned(q, "Clear") /\ call[q].derr = Nil /\ call[q].err = Nil
        /\ Deleted(call[q])
        /\ lastSave.gone = "cleared" /\ lastSave.cookie = call[q].req
        /\ Returned(p, "Load") /\ call[p].req = call[q].req /\ jar = call[p].req
        /\ call[p].err = ErrNotFound /\ call[p].ret = NoSession

\* the other half of C20: a Save with the same cookie that overlaps the Clear
\* wrote the Store after the delete; the Clear returned nil and the entry is
\* there again
C20_Recreated ==
    \E p, q \in Procs :
        /\ Returned(q, "Clear") /\ call[q].derr = Nil /\ call[q].err = Nil
        /\ Deleted(call[q])
        /\ call[p].op = "Save" /\ call[p].req = call[q].req
        /\ lastSave.cookie = call[q].req /\ lastSave.sess = sessObj[call[p].obj]
        /\ store[call[q].tckt.id] = Encrypt(call[q].tckt.secret, Serialize(sessObj[call[p].obj]))

====
